---- MODULE Spec2Model ----
(***************************************************************************)
(* Model of chain/src/block.rs: the Block aggregate (header + ordered      *)
(* transactions), its derived wire codec, the hex convenience constructor, *)
(* the identity hash and the merkle root.                                  *)
(*                                                                         *)
(* BlockHeader, Transaction, the ser crate (Stream/Reader/CompactInteger), *)
(* the hex crate and merkle_root::merkle_root live outside block.rs; they  *)
(* are modelled from their consumed contracts.                             *)
(***************************************************************************)
EXTENDS Integers, Sequences, FiniteSets, TLC

VARIABLES
    block,      \* the Block the caller holds, or NoBlock
    output,     \* bytes produced by the last serialize(&block), or NoBytes
    input,      \* bytes handed to deserialize, or NoBytes
    parsed,     \* Result of the last deserialize(input), or NoResult
    hex,        \* the &'static str last given to Block::from, or NoStr
    hashOut,    \* digest returned by the last block.hash(), or NoDigest
    rootOut,    \* digest returned by the last block.merkle_root(), or NoDigest
    crashed,    \* TRUE once an unwrap() has panicked
    origin,     \* how the run began: "none", "new", "bytes" or "str"
    published,  \* the Block as it was when shared with the threads, or NoBlock
    threads     \* per thread: where it is in its call, its locals, its result

vars == <<block, output, input, parsed, hex, hashOut, rootOut, crashed, origin,
          published, threads>>

---------------------------------------------------------------------------
(* Bounds of the model *)

NumHeaders == 2     \* distinct block headers
NumTx == 2          \* distinct transactions
MaxTxs == 4         \* longest transaction list
NumThreads == 2     \* threads sharing one Block

---------------------------------------------------------------------------
(* Values *)

NoBlock == [none |-> "block"]
NoBytes == <<-1>>
NoResult == [none |-> "result"]
NoStr == <<"-">>
NoDigest == <<>>

BlockHeaders == 1..NumHeaders
Transactions == 1..NumTx
TxLists == UNION {[1..n -> Transactions] : n \in 0..MaxTxs}

\* struct Block { block_header, transactions }
Block(h, txs) == [block_header |-> h, transactions |-> txs]

Blocks == {Block(h, txs) : h \in BlockHeaders, txs \in TxLists}

\* Result<T, Error> of a read: the value and the unread remainder, or the error
Ok(v, rest) == [ok |-> TRUE, value |-> v, rest |-> rest]
Err(e) == [ok |-> FALSE, err |-> e]

---------------------------------------------------------------------------
(* H256 digests.  A digest is a term: a leaf <<k>> or a node <<l, r>>, so    *)
(* that the pairing hash is injective and never meets a leaf.              *)

ZeroH256 == <<0>>
TxHash(t) == <<t + 1>>
HeaderHash(h) == <<0 - (h + 1)>>
MerkleNodeHash(left, right) == <<left, right>>

---------------------------------------------------------------------------
(* hex crate: FromHex for &str.  A string is a sequence of characters.      *)

HexLower == <<"0", "1", "2", "3", "4", "5", "6", "7",
              "8", "9", "a", "b", "c", "d", "e", "f">>
HexUpper == <<"0", "1", "2", "3", "4", "5", "6", "7",
              "8", "9", "A", "B", "C", "D", "E", "F">>

IsHexDigit(c) == \E i \in 1..16 : HexLower[i] = c \/ HexUpper[i] = c
HexValue(c) == (CHOOSE i \in 1..16 : HexLower[i] = c \/ HexUpper[i] = c) - 1

\* s.from_hex::<Vec<u8>>()
from_hex(s) ==
    IF \E i \in 1..Len(s) : ~IsHexDigit(s[i]) THEN Err("InvalidHexCharacter")
    ELSE IF Len(s) % 2 = 1 THEN Err("InvalidHexLength")
    ELSE Ok([i \in 1..(Len(s) \div 2) |->
                16 * HexValue(s[2 * i - 1]) + HexValue(s[2 * i])], <<>>)

\* the lower-case hex text of a byte string (how the fixtures are written)
to_hex(bytes) ==
    [i \in 1..(2 * Len(bytes)) |->
        IF i % 2 = 1 THEN HexLower[(bytes[(i + 1) \div 2] \div 16) + 1]
        ELSE HexLower[(bytes[i \div 2] % 16) + 1]]

---------------------------------------------------------------------------
(* ser crate: Stream and Reader primitives                                 *)

\* n as `width` little-endian bytes
LittleEndian(n, width) == [i \in 1..width |-> (n \div (256 ^ (i - 1))) % 256]

\* the unsigned value of little-endian bytes (most significant byte last)
RECURSIVE FromLittleEndian(_)
FromLittleEndian(bytes) ==
    IF bytes = <<>> THEN 0
    ELSE bytes[1] + 256 * FromLittleEndian(Tail(bytes))

\* Serializable for CompactInteger: the varint of a count
CompactInteger(n) ==
    IF n < 253 THEN <<n>>
    ELSE IF n < 65536 THEN <<253>> \o LittleEndian(n, 2)
    ELSE <<254>> \o LittleEndian(n, 4)

\* Reader: take `width` little-endian bytes
ReadUint(bytes, width) ==
    IF Len(bytes) < width THEN Err("UnexpectedEnd")
    ELSE Ok(FromLittleEndian(SubSeq(bytes, 1, width)),
            SubSeq(bytes, width + 1, Len(bytes)))

\* Deserializable for CompactInteger
ReadCompactInteger(bytes) ==
    IF bytes = <<>> THEN Err("UnexpectedEnd")
    ELSE IF bytes[1] < 253 THEN Ok(bytes[1], Tail(bytes))
    ELSE IF bytes[1] = 253 THEN ReadUint(Tail(bytes), 2)
    ELSE IF bytes[1] = 254 THEN ReadUint(Tail(bytes), 4)
    ELSE ReadUint(Tail(bytes), 8)

---------------------------------------------------------------------------
(* BlockHeader and Transaction: opaque to block.rs beyond serialize,       *)
(* deserialize and hash.  Each has a two-byte wire form: a type tag and    *)
(* the value's identity.                                                   *)

HeaderTag == 4
TxTag == 1

EncodeHeader(h) == <<HeaderTag, h>>
EncodeTx(t) == <<TxTag, t>>

DecodeHeader(bytes) ==
    IF Len(bytes) < 2 THEN Err("UnexpectedEnd")
    ELSE IF bytes[1] # HeaderTag THEN Err("MalformedData")
    ELSE Ok(bytes[2], SubSeq(bytes, 3, Len(bytes)))

DecodeTx(bytes) ==
    IF Len(bytes) < 2 THEN Err("UnexpectedEnd")
    ELSE IF bytes[1] # TxTag THEN Err("MalformedData")
    ELSE Ok(bytes[2], SubSeq(bytes, 3, Len(bytes)))

\* Stream::append_list: the count as a CompactInteger, then each element
RECURSIVE AppendEach(_)
AppendEach(txs) ==
    IF txs = <<>> THEN <<>> ELSE EncodeTx(Head(txs)) \o AppendEach(Tail(txs))

append_list(txs) == CompactInteger(Len(txs)) \o AppendEach(txs)

\* Reader::read_list: a CompactInteger count, then that many elements; the
\* first failing read ends the whole read with its error
RECURSIVE ReadEach(_, _)
ReadEach(bytes, n) ==
    IF n = 0 THEN Ok(<<>>, bytes)
    ELSE LET first == DecodeTx(bytes) IN
         IF ~first.ok THEN first
         ELSE LET more == ReadEach(first.rest, n - 1) IN
              IF ~more.ok THEN more
              ELSE Ok(<<first.value>> \o more.value, more.rest)

read_list(bytes) ==
    LET len == ReadCompactInteger(bytes) IN
    IF ~len.ok THEN len ELSE ReadEach(len.rest, len.value)

---------------------------------------------------------------------------
(* merkle_root::merkle_root: the fold of an ordered digest sequence        *)

\* one level: node i is the hash of the pair (2i-1, 2i); an odd level pairs
\* its last node with itself
MerkleRow(hashes) ==
    [i \in 1..((Len(hashes) + 1) \div 2) |->
        MerkleNodeHash(hashes[2 * i - 1],
                       IF 2 * i <= Len(hashes) THEN hashes[2 * i]
                       ELSE hashes[2 * i - 1])]

RECURSIVE merkle_root(_)
merkle_root(hashes) ==
    IF Len(hashes) = 0 THEN ZeroH256
    ELSE IF Len(hashes) = 1 THEN hashes[1]
    ELSE merkle_root(MerkleRow(hashes))

---------------------------------------------------------------------------
(* block.rs *)

\* the hashes of a transaction list, in list order
TxHashes(txs) == [i \in 1..Len(txs) |-> TxHash(txs[i])]

Reverse(seq) == [i \in 1..Len(seq) |-> seq[Len(seq) + 1 - i]]

\* faulty variant: the fields are written in the wrong order
serialize_FieldsSwapped(b) == append_list(b.transactions) \o EncodeHeader(b.block_header)

\* faulty variant: the transactions are appended without their count
serialize_NoCount(b) == EncodeHeader(b.block_header) \o AppendEach(b.transactions)

\* #[derive(Serializable)]: stream.append(&block_header).append_list(&transactions)
serialize(b) == EncodeHeader(b.block_header) \o append_list(b.transactions)

\* faulty variant: the transactions are collected back to front
deserialize_ReversedList(bytes) ==
    LET header == DecodeHeader(bytes) IN
    IF ~header.ok THEN header
    ELSE LET txs == read_list(header.rest) IN
         IF ~txs.ok THEN txs
         ELSE Ok(Block(header.value, Reverse(txs.value)), txs.rest)

\* faulty variant: a failed transaction read is swallowed and the Block is
\* returned with the header alone
deserialize_PartialBlock(bytes) ==
    LET header == DecodeHeader(bytes) IN
    IF ~header.ok THEN header
    ELSE LET txs == read_list(header.rest) IN
         IF ~txs.ok THEN Ok(Block(header.value, <<>>), header.rest)
         ELSE Ok(Block(header.value, txs.value), txs.rest)

\* #[derive(Deserializable)] through ser::deserialize:
\* Block { block_header: reader.read()?, transactions: reader.read_list()? }
deserialize(bytes) ==
    LET header == DecodeHeader(bytes) IN
    IF ~header.ok THEN header
    ELSE LET txs == read_list(header.rest) IN
         IF ~txs.ok THEN txs
         ELSE Ok(Block(header.value, txs.value), txs.rest)

\* Block::new
Block_new(header, transactions) == Block(header, transactions)

\* faulty variant: the header's hash is fed in as a leading leaf
Block_merkle_root_WithHeader(b) ==
    merkle_root(<<HeaderHash(b.block_header)>> \o TxHashes(b.transactions))

\* faulty variant: an odd list is padded with its last hash before the fold
Block_merkle_root_Padded(b) ==
    LET hashes == TxHashes(b.transactions) IN
    merkle_root(IF Len(hashes) % 2 = 1 THEN hashes \o <<hashes[Len(hashes)]>>
                ELSE hashes)

\* faulty variant: the transactions are iterated back to front
Block_merkle_root_Reversed(b) == merkle_root(Reverse(TxHashes(b.transactions)))

\* faulty variant: the transactions are put in canonical order before hashing
Block_merkle_root_Sorted(b) ==
    merkle_root(TxHashes(SortSeq(b.transactions, LAMBDA x, y : x < y)))

\* faulty variant: a transaction repeating its predecessor is skipped
Block_merkle_root_Dedup(b) ==
    LET txs == b.transactions
        kept == SelectSeq([i \in 1..Len(txs) |-> <<i, txs[i]>>],
                          LAMBDA e : e[1] = 1 \/ txs[e[1] - 1] # e[2])
    IN merkle_root([i \in 1..Len(kept) |-> TxHash(kept[i][2])])

\* Block::merkle_root
Block_merkle_root(b) ==
    LET hashes == [i \in 1..Len(b.transactions) |-> TxHash(b.transactions[i])]
    IN merkle_root(hashes)

\* Block::transactions
Block_transactions(b) == b.transactions

\* Block::header
Block_header(b) == b.block_header

\* faulty variant: the digest covers the transactions as well as the header
Block_hash_WholeBlock(b) ==
    MerkleNodeHash(HeaderHash(b.block_header), merkle_root(TxHashes(b.transactions)))

\* Block::hash
Block_hash(b) == HeaderHash(b.block_header)

\* RepresentH256 for Block
Block_h256(b) == Block_hash(b)

\* From<&'static str> for Block: both steps are unwrap()ed, so either
\* failure panics instead of returning
Panic == [panic |-> TRUE]
Block_from(s) ==
    LET bytes == from_hex(s) IN
    IF ~bytes.ok THEN Panic
    ELSE LET b == deserialize(bytes.value) IN
         IF ~b.ok THEN Panic ELSE b.value

---------------------------------------------------------------------------
(* Byte streams and strings a caller can hand in *)

\* block_bytes := header_bytes || tx_count_varint || tx_bytes*
WireFormat(h, txs) == EncodeHeader(h) \o CompactInteger(Len(txs)) \o AppendEach(txs)

WireBlocks == {WireFormat(h, txs) : h \in BlockHeaders, txs \in TxLists}

CorruptBytes == {0, 253, 254}

\* where a wire block holds its framing: the header tag, the count and each
\* transaction's tag
FramingPositions(w) == {1, 3} \cup {i \in 4..Len(w) : i % 2 = 0}

SuppliedStreams ==
    WireBlocks
    \cup UNION {{SubSeq(w, 1, k) : k \in 0..(Len(w) - 1)} : w \in WireBlocks}
    \cup UNION {{[w EXCEPT ![i] = c] : i \in FramingPositions(w), c \in CorruptBytes} :
                w \in WireBlocks}
    \cup {w \o <<0>> : w \in WireBlocks}
    \cup {EncodeHeader(h) \o <<253>> \o LittleEndian(Len(txs), 2) \o AppendEach(txs) :
            h \in BlockHeaders, txs \in TxLists}

SuppliedStrings ==
    {to_hex(w) : w \in WireBlocks}
    \cup {to_hex(SubSeq(w, 1, Len(w) - 1)) : w \in WireBlocks}
    \cup {SubSeq(to_hex(w), 1, 2 * Len(w) - 1) : w \in WireBlocks}
    \cup {[to_hex(w) EXCEPT ![Len(w)] = "g"] : w \in WireBlocks}

---------------------------------------------------------------------------
(* The state machine: a caller constructing, encoding, decoding and        *)
(* querying a Block                                                        *)

Threads == 1..NumThreads

\* a thread between calls that has returned nothing yet
NoReturn == [done |-> FALSE]
Returned(v) == [done |-> TRUE, value |-> v]
Idle == [pc |-> "idle", call |-> "none", local |-> <<>>, ret |-> NoReturn]

\* nothing has been constructed, received or parsed yet
Fresh == block = NoBlock /\ input = NoBytes /\ hex = NoStr /\ ~crashed

Init ==
    /\ block = NoBlock
    /\ output = NoBytes
    /\ input = NoBytes
    /\ parsed = NoResult
    /\ hex = NoStr
    /\ hashOut = NoDigest
    /\ rootOut = NoDigest
    /\ crashed = FALSE
    /\ origin = "none"
    /\ published = NoBlock
    /\ threads = [t \in Threads |-> Idle]

\* Block::new(header, transactions)
New(h, txs) ==
    /\ Fresh
    /\ block' = Block_new(h, txs)
    /\ output' = NoBytes
    /\ input' = NoBytes
    /\ parsed' = NoResult
    /\ hex' = NoStr
    /\ hashOut' = NoDigest
    /\ rootOut' = NoDigest
    /\ origin' = "new"
    /\ UNCHANGED crashed
    /\ UNCHANGED <<published, threads>>

\* serialize(&block).take()
Serialize ==
    /\ ~crashed
    /\ block # NoBlock
    /\ output' = serialize(block)
    /\ UNCHANGED <<block, input, parsed, hex, hashOut, rootOut, crashed, origin>>
    /\ UNCHANGED <<published, threads>>

\* the serialized bytes are handed to a reader
Transfer ==
    /\ ~crashed
    /\ output # NoBytes
    /\ input' = output
    /\ parsed' = NoResult
    /\ UNCHANGED <<block, output, hex, hashOut, rootOut, crashed, origin>>
    /\ UNCHANGED <<published, threads>>

\* bytes arrive from outside (network, disk, fixture)
Supply(bytes) ==
    /\ Fresh
    /\ input' = bytes
    /\ block' = NoBlock
    /\ output' = NoBytes
    /\ parsed' = NoResult
    /\ hex' = NoStr
    /\ hashOut' = NoDigest
    /\ rootOut' = NoDigest
    /\ origin' = "bytes"
    /\ UNCHANGED crashed
    /\ UNCHANGED <<published, threads>>

\* let parsed: Result<Block, _> = deserialize(&input)
Deserialize ==
    /\ ~crashed
    /\ input # NoBytes
    /\ parsed' = deserialize(input)
    /\ UNCHANGED <<block, output, input, hex, hashOut, rootOut, crashed, origin>>
    /\ UNCHANGED <<published, threads>>

\* the caller keeps the Block of a successful decode
Adopt ==
    /\ ~crashed
    /\ parsed # NoResult
    /\ parsed.ok
    /\ block' = parsed.value
    /\ output' = NoBytes
    /\ hashOut' = NoDigest
    /\ rootOut' = NoDigest
    /\ UNCHANGED <<input, parsed, hex, crashed, origin>>
    /\ UNCHANGED <<published, threads>>

\* let block: Block = s.into()
FromStr(s) ==
    /\ Fresh
    /\ hex' = s
    /\ crashed' = (Block_from(s) = Panic)
    /\ block' = IF Block_from(s) = Panic THEN NoBlock ELSE Block_from(s)
    /\ output' = NoBytes
    /\ input' = NoBytes
    /\ parsed' = NoResult
    /\ hashOut' = NoDigest
    /\ rootOut' = NoDigest
    /\ origin' = "str"
    /\ UNCHANGED <<published, threads>>

\* block.hash()
Hash ==
    /\ ~crashed
    /\ block # NoBlock
    /\ hashOut' = Block_hash(block)
    /\ UNCHANGED <<block, output, input, parsed, hex, rootOut, crashed, origin>>
    /\ UNCHANGED <<published, threads>>

\* block.merkle_root()
MerkleRoot ==
    /\ ~crashed
    /\ block # NoBlock
    /\ rootOut' = Block_merkle_root(block)
    /\ UNCHANGED <<block, output, input, parsed, hex, hashOut, crashed, origin>>
    /\ UNCHANGED <<published, threads>>

Next ==
    \/ Fresh /\ \E h \in BlockHeaders, txs \in TxLists : New(h, txs)
    \/ Serialize
    \/ Transfer
    \/ Fresh /\ \E bytes \in SuppliedStreams : Supply(bytes)
    \/ Deserialize
    \/ Adopt
    \/ Fresh /\ \E s \in SuppliedStrings : FromStr(s)
    \/ Hash
    \/ MerkleRoot

Spec == Init /\ [][Next]_vars

---------------------------------------------------------------------------
(* Several threads calling the read-only operations of one shared Block.   *)
(* A call that reads the Block more than once takes one step per read.     *)

\* faulty variant: the receiver's transactions are moved out by the call
Borrow_TakesTransactions(b) == Block(b.block_header, <<>>)

\* the Block after a call through &self: every method of impl Block borrows
\* its receiver immutably and assigns to no field
Borrow(b) == b

\* Block::new, after which the Block is handed to the threads
Share(h, txs) ==
    /\ Fresh
    /\ published = NoBlock
    /\ block' = Block_new(h, txs)
    /\ published' = Block_new(h, txs)
    /\ origin' = "new"
    /\ UNCHANGED <<output, input, parsed, hex, hashOut, rootOut, crashed, threads>>

\* thread t is free to start a call on the shared Block
CanCall(t) == ~crashed /\ published # NoBlock /\ threads[t].pc = "idle"

Others == <<output, input, parsed, hex, hashOut, rootOut, crashed, origin, published>>

\* block.hash()
CallHash(t) ==
    /\ CanCall(t)
    /\ threads' = [threads EXCEPT ![t] =
            [pc |-> "idle", call |-> "hash", local |-> <<>>,
             ret |-> Returned(Block_hash(block))]]
    /\ block' = Borrow(block)
    /\ UNCHANGED Others

\* block.header()
CallHeader(t) ==
    /\ CanCall(t)
    /\ threads' = [threads EXCEPT ![t] =
            [pc |-> "idle", call |-> "header", local |-> <<>>,
             ret |-> Returned(Block_header(block))]]
    /\ block' = Borrow(block)
    /\ UNCHANGED Others

\* block.transactions()
CallTransactions(t) ==
    /\ CanCall(t)
    /\ threads' = [threads EXCEPT ![t] =
            [pc |-> "idle", call |-> "transactions", local |-> <<>>,
             ret |-> Returned(Block_transactions(block))]]
    /\ block' = Borrow(block)
    /\ UNCHANGED Others

\* block.merkle_root(), first statement: collect the transactions' hashes
MerkleRootCollect(t) ==
    /\ CanCall(t)
    /\ threads' = [threads EXCEPT ![t] =
            [pc |-> "hashes", call |-> "merkle_root",
             local |-> TxHashes(block.transactions), ret |-> NoReturn]]
    /\ block' = Borrow(block)
    /\ UNCHANGED Others

\* block.merkle_root(), second statement: fold the collected hashes
MerkleRootFold(t) ==
    /\ ~crashed
    /\ threads[t].pc = "hashes"
    /\ threads' = [threads EXCEPT ![t] =
            [pc |-> "idle", call |-> "merkle_root", local |-> <<>>,
             ret |-> Returned(merkle_root(threads[t].local))]]
    /\ UNCHANGED <<block, output, input, parsed, hex, hashOut, rootOut, crashed,
                   origin, published>>

\* serialize(&block), first field: stream.append(&block_header)
SerializeHeader(t) ==
    /\ CanCall(t)
    /\ threads' = [threads EXCEPT ![t] =
            [pc |-> "header", call |-> "serialize",
             local |-> EncodeHeader(block.block_header), ret |-> NoReturn]]
    /\ block' = Borrow(block)
    /\ UNCHANGED Others

\* serialize(&block), second field: stream.append_list(&transactions)
SerializeList(t) ==
    /\ ~crashed
    /\ threads[t].pc = "header"
    /\ threads' = [threads EXCEPT ![t] =
            [pc |-> "idle", call |-> "serialize", local |-> <<>>,
             ret |-> Returned(threads[t].local \o append_list(block.transactions))]]
    /\ block' = Borrow(block)
    /\ UNCHANGED Others

ThreadNext ==
    \/ Fresh /\ \E h \in BlockHeaders, txs \in TxLists : Share(h, txs)
    \/ \E t \in Threads : CallHash(t)
    \/ \E t \in Threads : CallHeader(t)
    \/ \E t \in Threads : CallTransactions(t)
    \/ \E t \in Threads : MerkleRootCollect(t)
    \/ \E t \in Threads : MerkleRootFold(t)
    \/ \E t \in Threads : SerializeHeader(t)
    \/ \E t \in Threads : SerializeList(t)

ThreadSpec == Init /\ [][ThreadNext]_vars

---------------------------------------------------------------------------
(* Properties *)

\* bytes is a header encoding, then the varint of a count n, then exactly n
\* transaction encodings
WellFormed(bytes) ==
    \E n \in 0..Len(bytes) :
        LET count == CompactInteger(n)
            body == 2 + Len(count)
        IN /\ Len(bytes) = body + 2 * n
           /\ SubSeq(bytes, 1, 2) = EncodeHeader(bytes[2])
           /\ SubSeq(bytes, 3, body) = count
           /\ \A i \in 1..n :
                SubSeq(bytes, body + 2 * i - 1, body + 2 * i)
                    = EncodeTx(bytes[body + 2 * i])

\* C1: decoding the bytes serialize produced for the held Block succeeds,
\* consumes them all, yields a Block equal to the held one (same header, same
\* transactions in the same order), and serializing that Block again gives the
\* identical bytes.
C1_DecodeEncode ==
    (block # NoBlock /\ output # NoBytes /\ input = output /\ parsed # NoResult)
        => /\ parsed.ok
           /\ parsed.rest = <<>>
           /\ parsed.value = block
           /\ parsed.value.block_header = block.block_header
           /\ parsed.value.transactions = block.transactions
           /\ serialize(parsed.value) = output

C1_Witness ==
    /\ origin = "new"
    /\ block # NoBlock
    /\ Len(block.transactions) >= 3
    /\ block.transactions[1] # block.transactions[2]
    /\ output # NoBytes
    /\ input = output
    /\ parsed # NoResult
    /\ parsed.ok

\* C2: when the supplied bytes are well-formed, deserialize succeeds and
\* serializing the Block it returned reproduces the supplied bytes exactly.
C2_EncodeDecode ==
    (input # NoBytes /\ WellFormed(input) /\ parsed # NoResult)
        => /\ parsed.ok
           /\ (block = parsed.value /\ output # NoBytes => output = input)

C2_Witness ==
    /\ origin = "bytes"
    /\ WellFormed(input)
    /\ parsed # NoResult
    /\ parsed.ok
    /\ block = parsed.value
    /\ Len(block.transactions) >= 3
    /\ block.transactions[1] # block.transactions[2]
    /\ output = input

\* C3: the digest hash() returned is the hash of the block's header, and every
\* Block with that header has the same hash() whatever its transaction list.
C3_HashIsHeaderHash ==
    (block # NoBlock /\ hashOut # NoDigest)
        => /\ hashOut = HeaderHash(block.block_header)
           /\ \A txs \in TxLists :
                Block_hash(Block_new(block.block_header, txs)) = hashOut

C3_Witness ==
    /\ block # NoBlock
    /\ hashOut # NoDigest
    /\ Len(block.transactions) >= 2
    /\ \E txs \in TxLists : txs # block.transactions

\* C4: the digest merkle_root() returned is the fold of the transactions'
\* hashes taken in list order, and a Block with any other header and the same
\* transaction hashes has the same merkle root.
C4_RootOfTxHashes ==
    (block # NoBlock /\ rootOut # NoDigest)
        => /\ rootOut = merkle_root(TxHashes(block.transactions))
           /\ \A h \in BlockHeaders, txs \in [1..Len(block.transactions) -> Transactions] :
                TxHashes(txs) = TxHashes(block.transactions)
                    => Block_merkle_root(Block_new(h, txs)) = rootOut

C4_Witness ==
    /\ block # NoBlock
    /\ rootOut # NoDigest
    /\ Len(block.transactions) >= 3
    /\ block.transactions[1] # block.transactions[2]
    /\ \E h \in BlockHeaders : h # block.block_header

\* C5: for a Block with exactly one transaction, merkle_root() returned that
\* transaction's hash itself: a leaf digest, not the output of a pairing hash.
C5_SingleLeaf ==
    (block # NoBlock /\ rootOut # NoDigest /\ Len(block.transactions) = 1)
        => /\ rootOut = TxHash(block.transactions[1])
           /\ rootOut # MerkleNodeHash(TxHash(block.transactions[1]),
                                       TxHash(block.transactions[1]))

C5_Witness ==
    /\ block # NoBlock
    /\ rootOut # NoDigest
    /\ Len(block.transactions) = 1

\* the fold of C6 written out level by level: an odd level gets a copy of its
\* last node appended, then node i of the next level is H(left ++ right) of
\* the pair (2i-1, 2i); it ends at a single node
PadLevel(level) ==
    IF Len(level) % 2 = 1 THEN level \o <<level[Len(level)]>> ELSE level

NextLevel(level) ==
    LET padded == PadLevel(level) IN
    [i \in 1..(Len(padded) \div 2) |->
        MerkleNodeHash(padded[2 * i - 1], padded[2 * i])]

RECURSIVE FoldLevels(_)
FoldLevels(level) ==
    IF Len(level) = 1 THEN level[1] ELSE FoldLevels(NextLevel(level))

\* C6: for two or more transactions the returned root is the result of the
\* level-by-level fold: every level of count nodes yields ceil(count/2) nodes,
\* an odd level pairing its last node with itself; for three leaves [a,b,c]
\* it is H(H(a ++ b) ++ H(c ++ c)).
C6_LevelFold ==
    (block # NoBlock /\ rootOut # NoDigest /\ Len(block.transactions) >= 2)
        => LET leaves == TxHashes(block.transactions) IN
           /\ rootOut = FoldLevels(leaves)
           /\ 2 * Len(NextLevel(leaves)) \in {Len(leaves), Len(leaves) + 1}
           /\ Len(leaves) = 2 => rootOut = MerkleNodeHash(leaves[1], leaves[2])
           /\ Len(leaves) = 3 =>
                rootOut = MerkleNodeHash(MerkleNodeHash(leaves[1], leaves[2]),
                                         MerkleNodeHash(leaves[3], leaves[3]))

C6_Witness ==
    /\ block # NoBlock
    /\ rootOut # NoDigest
    /\ Len(block.transactions) = 3
    /\ block.transactions[1] # block.transactions[2]
    /\ block.transactions[3] # block.transactions[1]

\* the transaction list txs taken in the order p (a permutation of positions)
Reordered(txs, p) == [i \in 1..Len(txs) |-> txs[p[i]]]

Reorderings(txs) == {p \in Permutations(1..Len(txs)) : \E i \in 1..Len(txs) : p[i] # i}

HasDistinctHashes(txs) ==
    \E i, j \in 1..Len(txs) : TxHash(txs[i]) # TxHash(txs[j])

C8_AnyChangeChangesRoot ==
    (block # NoBlock /\ rootOut # NoDigest)
        => \A txs \in TxLists :
                TxHashes(txs) # TxHashes(block.transactions)
                    => Block_merkle_root(Block_new(block.block_header, txs)) # rootOut

\* C8 amended: every Block whose transaction hash sequence has the same length
\* as the held Block's and differs from it in an element has a merkle root
\* different from the one merkle_root() returned.
C8_SameLengthChangeChangesRoot ==
    (block # NoBlock /\ rootOut # NoDigest)
        => \A txs \in [1..Len(block.transactions) -> Transactions] :
                TxHashes(txs) # TxHashes(block.transactions)
                    => Block_merkle_root(Block_new(block.block_header, txs)) # rootOut

C8_Witness ==
    /\ block # NoBlock
    /\ rootOut # NoDigest
    /\ Len(block.transactions) >= 3
    /\ \E txs \in [1..Len(block.transactions) -> Transactions] :
            TxHashes(txs) # TxHashes(block.transactions)

\* C9: for a Block with no transactions merkle_root() returned the all-zero
\* digest, and calling it again returns that same digest.
C9_EmptyRootIsZero ==
    (block # NoBlock /\ rootOut # NoDigest /\ block.transactions = <<>>)
        => /\ rootOut = ZeroH256
           /\ Block_merkle_root(block) = rootOut

C9_Witness ==
    /\ block # NoBlock
    /\ rootOut # NoDigest
    /\ block.transactions = <<>>

\* C10: constructing a Block from a hex string never crashes: whatever the
\* string (malformed hex, or hex of malformed block bytes), the constructor
\* returns to its caller.
C10_FromStrNeverCrashes == hex # NoStr => ~crashed

\* the error of the first read that fails when bytes is walked as header,
\* count and declared transactions (each two bytes wide), or "none"
FirstFailure(bytes) ==
    LET header == DecodeHeader(bytes) IN
    IF ~header.ok THEN header.err
    ELSE LET count == ReadCompactInteger(header.rest) IN
         IF ~count.ok THEN count.err
         ELSE LET body == count.rest
                  last == IF count.value < (Len(body) \div 2) + 1 THEN count.value
                          ELSE (Len(body) \div 2) + 1
                  bad == {k \in 1..last :
                            ~DecodeTx(SubSeq(body, 2 * k - 1, Len(body))).ok}
              IN IF bad = {} THEN "none"
                 ELSE LET first == CHOOSE k \in bad : \A j \in bad : k <= j
                      IN DecodeTx(SubSeq(body, 2 * first - 1, Len(body))).err

\* C11: when the buffer ends before the header, the count or a declared
\* transaction is complete, or the header or a transaction fails to decode,
\* deserialize returns an error result carrying the failing reader's error
\* unchanged; the result holds no Block, the caller holds no Block, and
\* nothing has panicked.
C11_DecodeErrorPropagates ==
    (origin = "bytes" /\ parsed # NoResult /\ FirstFailure(input) # "none")
        => /\ ~parsed.ok
           /\ parsed = Err(FirstFailure(input))
           /\ DOMAIN parsed = {"ok", "err"}
           /\ block = NoBlock
           /\ ~crashed

C11_Witness ==
    /\ origin = "bytes"
    /\ parsed # NoResult
    /\ ~parsed.ok
    /\ parsed.err = "MalformedData"
    /\ DecodeHeader(input).ok
    /\ Len(input) >= 7
    /\ DecodeTx(SubSeq(input, 4, Len(input))).ok

\* C12: the bytes serialize returned are the header's encoding, then the
\* varint of the number of transactions, then each transaction's encoding at
\* its place in list order, and nothing more; every element is a byte, and
\* serializing the same Block again gives the identical bytes.
C12_EncodeLayout ==
    (block # NoBlock /\ output # NoBytes)
        => LET txs == block.transactions
               head == EncodeHeader(block.block_header)
               count == CompactInteger(Len(txs))
               body == Len(head) + Len(count)
           IN /\ Len(output) = body + 2 * Len(txs)
              /\ SubSeq(output, 1, Len(head)) = head
              /\ SubSeq(output, Len(head) + 1, body) = count
              /\ \A i \in 1..Len(txs) :
                    SubSeq(output, body + 2 * i - 1, body + 2 * i) = EncodeTx(txs[i])
              /\ \A i \in 1..Len(output) : output[i] \in 0..255
              /\ serialize(block) = output

C12_Witness ==
    /\ block # NoBlock
    /\ output # NoBytes
    /\ Len(block.transactions) >= 3
    /\ block.transactions[1] # block.transactions[2]

\* what a call returns when it runs alone on Block b
Alone(call, b) ==
    CASE call = "hash" -> Block_hash(b)
      [] call = "merkle_root" -> Block_merkle_root(b)
      [] call = "header" -> Block_header(b)
      [] call = "transactions" -> Block_transactions(b)
      [] call = "serialize" -> serialize(b)

\* C13: once the Block is shared, it stays as it was constructed under every
\* interleaving of hash(), merkle_root(), header(), transactions() and
\* serialize by the threads, and every call that has returned returned what
\* the same call returns when run alone on that Block.
C13_SharedBlockUnchanged ==
    published # NoBlock
        => /\ block = published
           /\ block.block_header = published.block_header
           /\ block.transactions = published.transactions
           /\ \A t \in Threads :
                threads[t].ret.done
                    => threads[t].ret.value = Alone(threads[t].call, published)

C13_Witness ==
    /\ published # NoBlock
    /\ Len(published.transactions) >= 3
    /\ published.transactions[1] # published.transactions[2]
    /\ threads[1].call = "merkle_root"
    /\ threads[1].ret.done
    /\ threads[2].pc = "header"

====
